---- MODULE Spec2Model ----
(***************************************************************************)
(* Model of the 1-DoF rocket trajectory simulator (src/src/simulator.py):  *)
(* the mass-flow evaluator mdot_piecewise_linear and the integration loop  *)
(* of simulate with its ground guard, its event detection and its trim.    *)
(*                                                                         *)
(* Numbers.  The program computes in IEEE doubles.  The model computes on  *)
(* a decimal grid: a quantity x is the integer x * Scale, a product or a   *)
(* quotient is rounded to the nearest grid point (as the floating-point    *)
(* unit rounds to the nearest double), sums and differences are exact.     *)
(* The program's absolute tolerance 1e-12 is Eps grid units; Eps is more   *)
(* than one unit because doubles strictly inside the tolerance exist.      *)
(* An optional value (None in the program) is the empty set, a value v    *)
(* that has been set is {v}.                                               *)
(***************************************************************************)
EXTENDS Integers, Sequences, FiniteSets

\* ------------------------------------------------------------ arithmetic

\* Grid units per unit of the program (three decimals).
Scale == 10 * 10 * 10

\* The tolerance 1e-12 of the program, in grid units.
Eps == 2

\* The literal 0.5 of the drag formula.
Half == Scale \div 2

Abs(x) == IF x < 0 THEN -x ELSE x

Max2(x, y) == IF x >= y THEN x ELSE y

\* x / y for y > 0, rounded to the nearest integer (half up).
RDiv(x, y) == (2 * x + y) \div (2 * y)

\* The product of two grid numbers, rounded once; the split keeps every
\* intermediate value no larger than the result.
Mul(x, y) ==
    (x \div Scale) * (y \div Scale) * Scale
      + (x \div Scale) * (y % Scale)
      + (x % Scale) * (y \div Scale)
      + RDiv((x % Scale) * (y % Scale), Scale)

\* The quotient of two grid numbers (y > 0), rounded once.
Div(x, y) == (x \div y) * Scale + RDiv((x % y) * Scale, y)

\* A whole or decimal literal of the program as a grid number: Q(n, d) is n / d.
Q(n, d) == (n * Scale) \div d

\* math.ceil(x / y) for grid numbers x >= 0, y > 0.
CeilDiv(x, y) == (x + y - 1) \div y

\* ------------------------------------------------------------ curves

\* A curve is a sequence of samples <<time, rate>>.

\* The built-in trapezoid of simulate.
DefaultCurve ==
    << <<Q(0, 1), Q(0, 1)>>, <<Q(1, 2), Q(3, 1)>>,
       <<Q(9, 2), Q(3, 1)>>, <<Q(5, 1), Q(0, 1)>> >>

\* Stable sort by time (np.argsort of the time column), by insertion.
RECURSIVE InsertByTime(_, _)
InsertByTime(s, c) ==
    IF c = <<>> THEN <<s>>
    ELSE IF s[1] < Head(c)[1] THEN <<s>> \o c
    ELSE <<Head(c)>> \o InsertByTime(s, Tail(c))

RECURSIVE SortByTime(_)
SortByTime(c) ==
    IF c = <<>> THEN <<>>
    ELSE InsertByTime(c[Len(c)], SortByTime(SubSeq(c, 1, Len(c) - 1)))

\* load_motor_curve: no file gives None (here: absent), a file gives its
\* rows sorted by time.
load_motor_curve(file) ==
    IF file.exists THEN [absent |-> FALSE, samples |-> SortByTime(file.rows)]
    ELSE [absent |-> TRUE, samples |-> <<>>]

\* np.interp for a query strictly inside the span of the samples.
np_interp(tq, c) ==
    LET j == CHOOSE k \in 1..(Len(c) - 1) :
                 /\ c[k][1] <= tq
                 /\ \A l \in (k + 1)..(Len(c) - 1) : c[l][1] > tq
    IN  IF c[j][1] = tq THEN c[j][2]
        ELSE LET slope == Div(c[j + 1][2] - c[j][2], c[j + 1][1] - c[j][1])
             IN  Mul(slope, tq - c[j][1]) + c[j][2]

\* The boundary rule of mdot_piecewise_linear, taken when the query is not
\* strictly inside the span.
BoundaryRateZero(tq, c) == 0

BoundaryRate(tq, c) ==
    IF Abs(tq - c[1][1]) < Eps THEN c[1][2]
    ELSE IF Abs(tq - c[Len(c)][1]) < Eps THEN c[Len(c)][2]
    ELSE 0

mdot_piecewise_linear(tq, cv) ==
    IF cv.absent \/ Len(cv.samples) < 2 THEN 0
    ELSE IF tq <= cv.samples[1][1] \/ tq >= cv.samples[Len(cv.samples)][1]
         THEN BoundaryRate(tq, cv.samples)
         ELSE np_interp(tq, cv.samples)

\* ------------------------------------------------------------ one step

\* The number of samples allocated: int(math.ceil(tmax / dt)) + 2.
NSamplesOneMore(c) == CeilDiv(c.tmax, c.dt) + 3

NSamples(c) == CeilDiv(c.tmax, c.dt) + 2

\* The curve simulate integrates: the loaded one, or the default trapezoid.
CurveOf(c) ==
    LET cv == load_motor_curve(c.file)
    IN  IF cv.absent THEN [absent |-> FALSE, samples |-> DefaultCurve] ELSE cv

\* 1) the mass-flow rate of the step: 0 once the propellant is gone.
MdotNowUnchecked(tq, mass, m_dry, cv) == mdot_piecewise_linear(tq, cv)

MdotNow(tq, mass, m_dry, cv) ==
    IF mass <= m_dry + Eps THEN 0 ELSE mdot_piecewise_linear(tq, cv)

\* 2) the forces.
Thrust(mdot, ue) == Mul(mdot, ue)

Drag(rho, v, Cd, A) == Mul(Mul(Mul(Mul(Mul(Half, rho), v), Abs(v)), Cd), A)

Weight(mass, g) == Mul(mass, g)

\* 3) the acceleration; sgnV is 1 at V ~ 0.
SgnV(v) == IF Abs(v) < Eps THEN 1 ELSE IF v > 0 THEN 1 ELSE -1

Accel(g, drag, thrust, mass, v) ==
    (-g) - Div(drag, mass) + Div(SgnV(v) * thrust, mass)

\* 4) the ground condition.
OnGroundStrict(hh, v, netF) == hh < 0 /\ v <= 0 + Eps /\ netF <= 0

OnGround(hh, v, netF) == hh <= 0 + Eps /\ v <= 0 + Eps /\ netF <= 0

\* The events' crossing conditions and interpolation factors.
MecoByMass(mecoSet, mass, m_new, m_dry) ==
    (~mecoSet) /\ mass > m_dry + Eps /\ m_new <= m_dry + Eps

ThetaMeco(mass, m_new, m_dry) == Div(mass - m_dry, (mass - m_new) + Eps)

MecoByCurveAgain(mecoSet, mdot, mdot_next) == mdot > Eps /\ mdot_next <= Eps

MecoByCurve(mecoSet, mdot, mdot_next) ==
    (~mecoSet) /\ mdot > Eps /\ mdot_next <= Eps

ApogeeCross(apoSet, v, v_new) == (~apoSet) /\ v > 0 /\ v_new <= 0

ThetaApoFromEnd(v, v_new) == Div(-v_new, v - v_new + Eps)

ThetaApo(v, v_new) == Div(v, v - v_new + Eps)

TouchdownCross(tdSet, hh, h_new) == (~tdSet) /\ hh > 0 /\ h_new <= 0

ThetaTd(hh, h_new) == Div(hh, hh - h_new + Eps)

\* x + theta * (x_new - x)
Lerp(x0, theta, x1) == x0 + Mul(theta, x1 - x0)

\* The altitude written by a step that records touchdown.
TouchdownAltitudeKept(h_new) == h_new

TouchdownAltitude(h_new) == 0

\* The mass written: max(m_new, m_dry).
ClampMassMissing(m_new, m_dry) == m_new

ClampMass(m_new, m_dry) == Max2(m_new, m_dry)

\* The index the series are trimmed to: the last one with t > 0, or 0.
LastIndex(tt) ==
    LET pos == {k \in 1..Len(tt) : tt[k] > 0}
    IN  IF pos = {} THEN 0 ELSE (CHOOSE k \in pos : \A l \in pos : l <= k) - 1

SeqMax(s) == CHOOSE v \in {s[k] : k \in 1..Len(s)} : \A k \in 1..Len(s) : s[k] <= v

\* ------------------------------------------------------------ state

VARIABLES
    cfg,        \* the arguments of simulate
    curve,      \* t_curve, md_curve
    n,          \* the allocated length
    i,          \* the number of iterations of the loop executed
    pc,         \* "loop", "trim", "done" ("idle": simulate is not running)
    t, h, V, m, a, Th, D, W,    \* the series; index k of the program is [k + 1]
    meco, t_MECO, h_MECO, V_MECO,
    apo, t_apo, h_apo,
    td, t_td,
    metrics,    \* the returned dictionary's maxima and t_end
    step,       \* the local values of the iteration executed last
    q           \* one call of mdot_piecewise_linear: its arguments and result

series == <<t, h, V, m, a, Th, D, W>>
events == <<meco, t_MECO, h_MECO, V_MECO, apo, t_apo, h_apo, td, t_td>>
simvars == <<cfg, curve, n, i, pc, series, events, metrics, step>>
vars == <<simvars, q>>

Zeros(len) == [k \in 1..len |-> 0]

NoStep ==
    [index |-> -1, mdot |-> 0, mdot_next |-> 0, netF |-> 0, guard |-> FALSE,
     t_new |-> 0, h_new |-> 0, V_new |-> 0, m_new |-> 0,
     theta_meco |-> 0, theta_apo |-> 0, theta_td |-> 0,
     meco0 |-> FALSE, apo0 |-> FALSE, td0 |-> FALSE, fired |-> {}]

NoMetrics == [h_max |-> {}, V_max |-> {}, a_max |-> {}, t_end |-> {}]

IdleQ == [t |-> 0, cv |-> [absent |-> TRUE, samples |-> <<>>], out |-> {}]

\* ------------------------------------------------------------ inputs

\* The longest run, in seconds, and the largest propellant mass, in kg.
MaxTmax == 6
MaxProp == 5

NoFile == [exists |-> FALSE, rows |-> <<>>]

File(rows) == [exists |-> TRUE, rows |-> rows]

\* Mass-flow tables: a constant rate, a triangle, a short pulse (its rows
\* out of order in the file), a rate that touches zero at an interior
\* sample and rises again, a pulse followed by a pause and a second burn,
\* and a table of a single row.
ConstantRows == << <<Q(0, 1), Q(2, 1)>>, <<Q(10, 1), Q(2, 1)>> >>
TriangleRows == << <<Q(0, 1), Q(0, 1)>>, <<Q(1, 1), Q(5, 1)>>, <<Q(2, 1), Q(0, 1)>> >>
PulseRows    == << <<Q(1, 1), Q(0, 1)>>, <<Q(0, 1), Q(4, 1)>> >>
DipRows      == << <<Q(0, 1), Q(2, 1)>>, <<Q(1, 1), Q(0, 1)>>,
                   <<Q(2, 1), Q(2, 1)>>, <<Q(3, 1), Q(2, 1)>> >>
RelightRows  == << <<Q(0, 1), Q(4, 1)>>, <<Q(1, 2), Q(0, 1)>>, <<Q(3, 2), Q(0, 1)>>,
                   <<Q(2, 1), Q(4, 1)>>, <<Q(6, 1), Q(4, 1)>> >>
SingleRows   == << <<Q(0, 1), Q(3, 1)>> >>

\* Two flights that pass through the steps of the interpolation examples:
\* a pulse that leaves the pad at 2 m/s at t = 5.0 under a deceleration of
\* 30 m/s^2 (velocity 2 -> -1 over dt = 0.1), and a pulse after which the
\* vehicle is at altitude 3 falling at 40 m/s at t = 10.0 (altitude 3 -> -1).
ApogeeExample ==
    [dt |-> Q(1, 10), tmax |-> Q(26, 5), g |-> Q(30, 1), rho |-> Q(0, 1),
     Cd |-> Q(1, 2), A |-> Q(1, 100), m_dry |-> Q(1, 1), m_prop |-> Q(1, 1),
     ue |-> Q(100, 1),
     file |-> File(<< <<Q(49, 10), Q(1, 1)>>, <<Q(5, 1), Q(0, 1)>> >>)]

TouchdownExample ==
    [dt |-> Q(1, 10), tmax |-> Q(10, 1), g |-> Q(190, 1), rho |-> Q(0, 1),
     Cd |-> Q(1, 2), A |-> Q(1, 100), m_dry |-> Q(1, 1), m_prop |-> Q(3, 1),
     ue |-> Q(200, 1),
     file |-> File(<< <<Q(19, 2), Q(11, 1)>>, <<Q(48, 5), Q(0, 1)>> >>)]

\* A hop that stays within the tolerance of the ground: a thrust of the
\* order of the tolerance for two steps, without gravity or drag, leaves the
\* vehicle above the pad and rising, both by no more than the tolerance.
HopExample ==
    [dt |-> Q(1, 2), tmax |-> Q(2, 1), g |-> Q(0, 1), rho |-> Q(0, 1),
     Cd |-> Q(1, 2), A |-> Q(1, 100), m_dry |-> Q(1, 1), m_prop |-> Q(1, 1),
     ue |-> Q(1, 1),
     file |-> File(<< <<Q(0, 1), Q(2 * Eps, Scale)>>,
                      <<Q(1, 2), Q(2 * Eps, Scale)>>,
                      <<Q(1, 1), Q(0, 1)>> >>)]

Files ==
    {NoFile, File(ConstantRows), File(TriangleRows), File(PulseRows),
     File(DipRows), File(RelightRows), File(SingleRows)}

Configs ==
    [dt : {Q(1, 2), Q(1, 1)},
     tmax : {Q(2, 1), Q(9, 4), Q(MaxTmax, 1)},
     g : {Q(0, 1), Q(981, 100)},
     rho : {Q(0, 1), Q(1225, 1000)},
     Cd : {Q(1, 2)},
     A : {Q(1, 100)},
     m_dry : {Q(2, 1), Q(5, 1)},
     m_prop : {Q(k, 1) : k \in 0..MaxProp} \cup {Q(4001, 1000)},
     ue : {Q(10, 1), Q(20, 1), Q(100, 1)},
     file : Files]
      \cup {ApogeeExample, TouchdownExample, HopExample}

\* ------------------------------------------------------------ simulate

\* The state of simulate(c) as its loop begins.
Start(c) ==
    /\ cfg = c
    /\ curve = CurveOf(c)
    /\ n = NSamples(c)
    /\ i = 0
    /\ pc = "loop"
    /\ t = Zeros(NSamples(c))
    /\ h = Zeros(NSamples(c))
    /\ V = Zeros(NSamples(c))
    /\ m = [Zeros(NSamples(c)) EXCEPT ![1] = c.m_dry + c.m_prop]
    /\ a = Zeros(NSamples(c))
    /\ Th = Zeros(NSamples(c))
    /\ D = Zeros(NSamples(c))
    /\ W = Zeros(NSamples(c))
    /\ meco = FALSE /\ t_MECO = {} /\ h_MECO = {} /\ V_MECO = {}
    /\ apo = FALSE /\ t_apo = {} /\ h_apo = {}
    /\ td = FALSE /\ t_td = {}
    /\ metrics = NoMetrics
    /\ step = NoStep

Init ==
    /\ \E c \in Configs : Start(c)
    /\ q = IdleQ

\* One iteration of the loop, index i of the program.
Step ==
    /\ pc = "loop"
    /\ i < n - 1
    /\ LET k == i + 1
           mdot == MdotNow(t[k], m[k], cfg.m_dry, curve)
           Th_i == Thrust(mdot, cfg.ue)
           D_i == Drag(cfg.rho, V[k], cfg.Cd, cfg.A)
           W_i == Weight(m[k], cfg.g)
           netF == Th_i - D_i - W_i
           guard == OnGround(h[k], V[k], netF)
           a_i == IF guard THEN 0 ELSE Accel(cfg.g, D_i, Th_i, m[k], V[k])
           h_eul == IF guard THEN 0 ELSE h[k] + Mul(V[k], cfg.dt)
           V_new == IF guard THEN 0 ELSE V[k] + Mul(a_i, cfg.dt)
           m_new == m[k] - Mul(mdot, cfg.dt)
           t_new == t[k] + cfg.dt
           byMass == MecoByMass(meco, m[k], m_new, cfg.m_dry)
           theta_meco == ThetaMeco(m[k], m_new, cfg.m_dry)
           mdot_next == mdot_piecewise_linear(t_new, curve)
           byCurve == MecoByCurve(meco \/ byMass, mdot, mdot_next)
           byApo == ApogeeCross(apo, V[k], V_new)
           theta_apo == ThetaApo(V[k], V_new)
           byTd == TouchdownCross(td, h[k], h_eul)
           theta_td == ThetaTd(h[k], h_eul)
           h_new == IF byTd THEN TouchdownAltitude(h_eul) ELSE h_eul
       IN  /\ meco' = (meco \/ byMass \/ byCurve)
           /\ t_MECO' = IF byCurve THEN {t_new}
                        ELSE IF byMass THEN {Lerp(t[k], theta_meco, t_new)}
                        ELSE t_MECO
           /\ h_MECO' = IF byCurve THEN {h_eul}
                        ELSE IF byMass THEN {Lerp(h[k], theta_meco, h_eul)}
                        ELSE h_MECO
           /\ V_MECO' = IF byCurve THEN {V_new}
                        ELSE IF byMass THEN {Lerp(V[k], theta_meco, V_new)}
                        ELSE V_MECO
           /\ apo' = (apo \/ byApo)
           /\ t_apo' = IF byApo THEN {Lerp(t[k], theta_apo, t_new)} ELSE t_apo
           /\ h_apo' = IF byApo THEN {Lerp(h[k], theta_apo, h_eul)} ELSE h_apo
           /\ td' = (td \/ byTd)
           /\ t_td' = IF byTd THEN {Lerp(t[k], theta_td, t_new)} ELSE t_td
           /\ t' = [t EXCEPT ![k + 1] = t_new]
           /\ h' = [h EXCEPT ![k + 1] = h_new]
           /\ V' = [V EXCEPT ![k + 1] = V_new]
           /\ m' = [m EXCEPT ![k + 1] = ClampMass(m_new, cfg.m_dry)]
           /\ Th' = [Th EXCEPT ![k] = Th_i, ![k + 1] = Th_i]
           /\ D' = [D EXCEPT ![k] = D_i, ![k + 1] = D_i]
           /\ W' = [W EXCEPT ![k] = W_i, ![k + 1] = W_i]
           /\ a' = [a EXCEPT ![k] = a_i, ![k + 1] = a_i]
           /\ step' = [index |-> i, mdot |-> mdot, mdot_next |-> mdot_next,
                       netF |-> netF, guard |-> guard,
                       t_new |-> t_new, h_new |-> h_eul, V_new |-> V_new,
                       m_new |-> m_new,
                       theta_meco |-> IF byMass THEN theta_meco ELSE 0,
                       theta_apo |-> IF byApo THEN theta_apo ELSE 0,
                       theta_td |-> IF byTd THEN theta_td ELSE 0,
                       meco0 |-> meco, apo0 |-> apo, td0 |-> td,
                       fired |-> {e \in {"mass", "curve", "apogee", "touchdown"} :
                                     \/ e = "mass" /\ byMass
                                     \/ e = "curve" /\ byCurve
                                     \/ e = "apogee" /\ byApo
                                     \/ e = "touchdown" /\ byTd}]
           /\ i' = i + 1
           /\ pc' = IF td \/ byTd THEN "trim"
                    ELSE IF i + 1 < n - 1 THEN "loop" ELSE "trim"
    /\ UNCHANGED <<cfg, curve, n, metrics, q>>

\* The trim of the series to the last index with t > 0, and the metrics.
Trim ==
    /\ pc = "trim"
    /\ LET len == LastIndex(t) + 1
       IN  /\ t' = SubSeq(t, 1, len)
           /\ h' = SubSeq(h, 1, len)
           /\ V' = SubSeq(V, 1, len)
           /\ m' = SubSeq(m, 1, len)
           /\ a' = SubSeq(a, 1, len)
           /\ Th' = SubSeq(Th, 1, len)
           /\ D' = SubSeq(D, 1, len)
           /\ W' = SubSeq(W, 1, len)
           /\ metrics' = [h_max |-> {SeqMax(SubSeq(h, 1, len))},
                          V_max |-> {SeqMax(SubSeq(V, 1, len))},
                          a_max |-> {SeqMax(SubSeq(a, 1, len))},
                          t_end |-> {t[len]}]
    /\ pc' = "done"
    /\ UNCHANGED <<cfg, curve, n, i, events, step, q>>

Next == Step \/ Trim

Spec == Init /\ [][Next]_vars

\* ------------------------------------------------------------ evaluator alone

\* The largest rate, in kg/s, of the curves the evaluator is called with.
MaxRate == 3

\* The default arguments of simulate.
DefaultArgs ==
    [dt |-> Q(1, 100), tmax |-> Q(60, 1), g |-> Q(981, 100),
     rho |-> Q(1225, 1000), Cd |-> Q(1, 2), A |-> Q(1, 100),
     m_dry |-> Q(20, 1), m_prop |-> Q(30, 1), ue |-> Q(960, 1), file |-> NoFile]

\* simulate is not running.
SimIdle ==
    /\ cfg = DefaultArgs
    /\ curve = [absent |-> TRUE, samples |-> <<>>]
    /\ n = 0 /\ i = 0 /\ pc = "idle"
    /\ t = <<>> /\ h = <<>> /\ V = <<>> /\ m = <<>>
    /\ a = <<>> /\ Th = <<>> /\ D = <<>> /\ W = <<>>
    /\ meco = FALSE /\ t_MECO = {} /\ h_MECO = {} /\ V_MECO = {}
    /\ apo = FALSE /\ t_apo = {} /\ h_apo = {}
    /\ td = FALSE /\ t_td = {}
    /\ metrics = NoMetrics
    /\ step = NoStep

QueryRates == {Q(r, 1) : r \in 0..MaxRate}

\* Sample times in ascending order: one, two or three samples, among them
\* two samples closer than the tolerance and samples of equal time.
QueryTimes ==
    { <<Q(0, 1)>>, <<Q(1, 1)>>,
      <<Q(0, 1), Q(1, 1)>>, <<Q(0, 1), Q(2, 1)>>, <<Q(1, 1), Q(2, 1)>>,
      <<Q(0, 1), Q(1, 1000)>>, <<Q(1, 1), Q(1, 1)>>,
      <<Q(0, 1), Q(1, 1), Q(2, 1)>>, <<Q(0, 1), Q(1, 1), Q(1, 1)>> }

ExampleCurve == << <<Q(0, 1), Q(0, 1)>>, <<Q(1, 1), Q(5, 1)>>, <<Q(2, 1), Q(0, 1)>> >>

QueryCurves ==
    {[absent |-> TRUE, samples |-> <<>>], [absent |-> FALSE, samples |-> <<>>],
     [absent |-> FALSE, samples |-> ExampleCurve]}
      \cup { [absent |-> FALSE, samples |-> [k \in 1..Len(ts) |-> <<ts[k], rs[k]>>]] :
                 ts \in QueryTimes, rs \in [1..3 -> QueryRates] }

\* Query times: on, next to, within the tolerance of and away from the
\* sample times.
QueryInstants ==
    {Q(-1, 1), Q(-2, 1000), Q(-1, 1000), Q(0, 1), Q(1, 1000), Q(2, 1000),
     Q(1, 2), Q(999, 1000), Q(1, 1), Q(1001, 1000), Q(3, 2), Q(1998, 1000),
     Q(1999, 1000), Q(2, 1), Q(2001, 1000), Q(2002, 1000), Q(3, 1)}

InitMdot ==
    /\ SimIdle
    /\ \E tq \in QueryInstants, cv \in QueryCurves :
           q = [t |-> tq, cv |-> cv, out |-> {}]

\* One call mdot_piecewise_linear(t, t_curve, md_curve).
EvalMdot ==
    /\ pc = "idle"
    /\ q.out = {}
    /\ q' = [q EXCEPT !.out = {mdot_piecewise_linear(q.t, q.cv)}]
    /\ UNCHANGED simvars

NextMdot == EvalMdot

SpecMdot == InitMdot /\ [][NextMdot]_vars

\* ------------------------------------------------------------ properties

\* The positions [k] of the samples written so far (all of them, once trimmed).
Samples ==
    IF pc = "done" THEN 1..Len(t) ELSE IF pc = "idle" THEN {} ELSE 1..(i + 1)

\* The position of the sample the last iteration started from.
Last == step.index + 1

Stepped == pc # "idle" /\ step.index >= 0

\* ceil(tmax / dt), from its definition: the least k with k * dt >= tmax.
Budget ==
    CHOOSE k \in 0..(cfg.tmax \div cfg.dt + 1) :
        k * cfg.dt >= cfg.tmax /\ (k - 1) * cfg.dt < cfg.tmax

\* C1: with dt > 0, propellant mass >= 0 and a curve of non-negative rates,
\* the mass series starts at dry_mass + propellant mass, never increases
\* from one sample to the next and never falls below the dry mass.
C1_MassMonotone ==
    pc # "idle" =>
        /\ m[1] = cfg.m_dry + cfg.m_prop
        /\ \A k \in Samples :
              /\ m[k] >= cfg.m_dry
              /\ (k + 1 \in Samples => m[k + 1] <= m[k])

\* C1's case: a finished run whose last step would have taken the mass below
\* the dry mass, and whose mass has fallen.
C1_Witness ==
    /\ pc = "done"
    /\ step.m_new < cfg.m_dry
    /\ m[Len(m)] = cfg.m_dry
    /\ \E k \in Samples : k + 1 \in Samples /\ m[k + 1] < m[k]

\* C2: with no propellant, from rest on the ground, altitude and velocity
\* are exactly 0 in every sample, no event is ever recorded, and the loop
\* ends only when the step budget ceil(tmax / dt) + 1 is used up.
C2_NoPropellantStaysPut ==
    (pc # "idle" /\ cfg.m_prop = 0) =>
        /\ \A k \in Samples : h[k] = 0 /\ V[k] = 0
        /\ ~meco /\ t_MECO = {} /\ h_MECO = {} /\ V_MECO = {}
        /\ ~apo /\ t_apo = {} /\ h_apo = {}
        /\ ~td /\ t_td = {}
        /\ (pc \in {"trim", "done"} => i = Budget + 1)

\* C2's case: a finished run without propellant under a curve whose rate is
\* positive from t = 0 on.
C2_Witness ==
    /\ pc = "done"
    /\ cfg.m_prop = 0
    /\ cfg.file = File(ConstantRows)
    /\ Len(t) > 3

\* C3: each event record is written at most once: it stays unset while its
\* crossing condition has not held, it is set in the step in which the
\* condition first holds, and no later step changes it; when both burnout
\* rules hold in one step the mass rule's values stand.
C3_EventsWrittenOnce ==
    [][ LET k == step'.index + 1
            rawMass == m[k] > cfg.m_dry + Eps /\ step'.m_new <= cfg.m_dry + Eps
            rawCurve == step'.mdot > Eps /\ step'.mdot_next <= Eps
            rawApo == V[k] > 0 /\ step'.V_new <= 0
            rawTd == h[k] > 0 /\ step'.h_new <= 0
            theta == Div(m[k] - cfg.m_dry, (m[k] - step'.m_new) + Eps)
        IN  /\ t_MECO # {} => UNCHANGED <<meco, t_MECO, h_MECO, V_MECO>>
            /\ t_apo # {} => UNCHANGED <<apo, t_apo, h_apo>>
            /\ t_td # {} => UNCHANGED <<td, t_td>>
            /\ step' = step => UNCHANGED events
            /\ (step' # step /\ t_MECO = {}) =>
                  /\ (t_MECO' # {}) = (rawMass \/ rawCurve)
                  /\ rawMass => t_MECO' = {t[k] + Mul(theta, cfg.dt)}
                  /\ (rawCurve /\ ~rawMass) => t_MECO' = {t[k] + cfg.dt}
                  /\ Cardinality(step'.fired \cap {"mass", "curve"}) <= 1
            /\ (step' # step /\ t_MECO # {}) => step'.fired \cap {"mass", "curve"} = {}
            /\ (step' # step /\ t_apo = {}) => ((t_apo' # {}) = rawApo)
            /\ (step' # step /\ t_td = {}) => ((t_td' # {}) = rawTd)
            /\ (meco' = (t_MECO' # {})) /\ (apo' = (t_apo' # {})) /\ (td' = (t_td' # {}))
      ]_vars

\* C3's case: a step in which both burnout rules hold, recorded by the mass
\* rule, at an instant inside the step.
C3_Witness ==
    /\ Stepped
    /\ step.mdot > Eps /\ step.mdot_next <= Eps
    /\ step.fired = {"mass"}
    /\ t_MECO # {step.t_new}

\* C4: the loop executes at most ceil(tmax / dt) + 1 steps, none after the
\* step that records touchdown; it ends by touchdown or by using up the
\* steps, and only then (while it loops an iteration of the range is left,
\* and each iteration counts towards the bound); the returned series have
\* at most ceil(tmax / dt) + 2 samples.
C4_Terminates ==
    pc # "idle" =>
        /\ i <= Budget + 1
        /\ td => pc \in {"trim", "done"}
        /\ pc \in {"trim", "done"} => (td \/ i = Budget + 1)
        /\ pc = "loop" => (~td /\ i < Budget + 1 /\ i < n - 1)
        /\ pc = "done" => Len(t) <= Budget + 2

\* C4's case: a run ended by touchdown before the steps were used up.
C4_Witness == pc = "done" /\ td /\ i < Budget + 1 /\ i > 2

\* C5: in the step in which the mass, above the dry mass at its start,
\* would fall to the dry mass or below, burnout is recorded at the fraction
\* theta = (m - m_dry) / (m - m_new + 1e-12) of the step: its time, altitude
\* and velocity are the step's start values advanced by theta of the step's
\* change.  With dt = 1, dry mass 5, propellant 5 and the constant rate 2
\* that is the step from t = 2, theta = 0.5, t_MECO = 2.5.
C5_BurnoutByMassInterpolated ==
    /\ (Stepped /\ m[Last] > cfg.m_dry /\ step.m_new <= cfg.m_dry) =>
          LET theta == Div(m[Last] - cfg.m_dry, (m[Last] - step.m_new) + Eps)
          IN  /\ t_MECO = {t[Last] + Mul(theta, cfg.dt)}
              /\ h_MECO = {h[Last] + Mul(theta, step.h_new - h[Last])}
              /\ V_MECO = {V[Last] + Mul(theta, step.V_new - V[Last])}
    /\ (/\ pc = "done"
        /\ cfg.dt = Q(1, 1) /\ cfg.tmax >= Q(3, 1)
        /\ cfg.m_dry = Q(5, 1) /\ cfg.m_prop = Q(5, 1)
        /\ cfg.file = File(ConstantRows)) => t_MECO = {Q(5, 2)}

\* C10: once burnout has been recorded, no later step computes a positive
\* mass-flow rate or a positive thrust.
C10_NoThrustAfterBurnout ==
    (Stepped /\ step.meco0) => (step.mdot <= 0 /\ Th[Last] <= 0)

\* C6: a step that starts with V > 0 and ends with V_new <= 0, apogee not
\* yet recorded, records t_apogee = t + theta * dt and h_apogee = h + theta *
\* (h_new - h) with theta = V / (V - V_new + 1e-12); a step that starts with
\* h > 0 and ends with h_new <= 0 records t_touchdown = t + theta * dt with
\* theta = h / (h - h_new + 1e-12); every event recorded in a step, burnout
\* included, has its time within the step.  Velocity 2 -> -1 from t = 5.0
\* with dt = 0.1 gives theta = 2/3 and t_apogee ~ 5.0667; altitude 3 -> -1
\* from t = 10.0 gives theta = 0.75 and t_touchdown = 10.075.
C6_CrossingsInterpolated ==
    Stepped =>
        /\ (V[Last] > 0 /\ step.V_new <= 0 /\ ~step.apo0) =>
              LET theta == Div(V[Last], V[Last] - step.V_new + Eps)
              IN  /\ t_apo = {t[Last] + Mul(theta, cfg.dt)}
                  /\ h_apo = {h[Last] + Mul(theta, step.h_new - h[Last])}
        /\ (h[Last] > 0 /\ step.h_new <= 0 /\ ~step.td0) =>
              t_td = {t[Last] + Mul(Div(h[Last], h[Last] - step.h_new + Eps), cfg.dt)}
        /\ (apo /\ ~step.apo0) =>
              \A u \in t_apo : t[Last] <= u /\ u <= t[Last] + cfg.dt
        /\ (td /\ ~step.td0) =>
              \A u \in t_td : t[Last] <= u /\ u <= t[Last] + cfg.dt
        /\ (meco /\ ~step.meco0) =>
              \A u \in t_MECO : t[Last] <= u /\ u <= t[Last] + cfg.dt
        /\ (/\ t[Last] = Q(5, 1) /\ cfg.dt = Q(1, 10)
            /\ V[Last] = Q(2, 1) /\ step.V_new = Q(-1, 1) /\ ~step.apo0) =>
              /\ Abs(3 * step.theta_apo - 2 * Scale) <= 3
              /\ t_apo # {}
              /\ \A u \in t_apo : Abs(10 * u - Q(50667, 1000)) <= 10
        /\ (/\ t[Last] = Q(10, 1) /\ cfg.dt = Q(1, 10)
            /\ h[Last] = Q(3, 1) /\ step.h_new = Q(-1, 1)) =>
              /\ step.theta_td = Q(3, 4)
              /\ t_td = {Q(10075, 1000)}

\* C6's case: the step of the touchdown example, after an apogee recorded
\* strictly inside an earlier step.
C6_Witness ==
    /\ Stepped
    /\ t[Last] = Q(10, 1) /\ h[Last] = Q(3, 1) /\ step.h_new = Q(-1, 1)
    /\ "touchdown" \in step.fired
    /\ step.apo0
    /\ \E u \in t_apo : \E k \in Samples : t[k] < u /\ u < t[k] + cfg.dt

\* C8: every sample's altitude is >= 0, and the sample written by the step
\* that records touchdown has altitude exactly 0.
C8_NeverBelowGround ==
    pc # "idle" =>
        /\ \A k \in Samples : h[k] >= 0
        /\ (Stepped /\ td /\ ~step.td0) => h[Last + 1] = 0

\* C8's case: the step that records touchdown overshoots below the ground
\* with a downward velocity, under thrust.
C8_Witness ==
    /\ Stepped /\ td /\ ~step.td0
    /\ step.h_new < 0 /\ step.V_new < 0
    /\ Th[Last] > 0

\* C9: a step that starts at h <= 1e-12 with V <= 1e-12 and thrust - drag -
\* weight <= 0 records acceleration 0 and writes altitude 0 and velocity 0,
\* while the mass is reduced by rate * dt (not below the dry mass) and the
\* time advances by dt.  So while the thrust has never exceeded the weight
\* the vehicle is at altitude 0 and velocity 0 in every sample and neither
\* apogee nor touchdown is recorded.
C9_GroundGuard ==
    /\ (/\ Stepped
        /\ h[Last] <= Eps /\ V[Last] <= Eps
        /\ Th[Last] - D[Last] - W[Last] <= 0) =>
              /\ a[Last] = 0
              /\ h[Last + 1] = 0 /\ V[Last + 1] = 0
              /\ m[Last + 1] = Max2(m[Last] - Mul(step.mdot, cfg.dt), cfg.m_dry)
              /\ t[Last + 1] = t[Last] + cfg.dt
    /\ (pc # "idle" /\ \A k \in 1..i : Th[k] <= W[k]) =>
          /\ \A k \in Samples : h[k] = 0 /\ V[k] = 0
          /\ t_apo = {} /\ t_td = {}

\* C9's case: a finished run that burned propellant on the pad and recorded
\* burnout there, its thrust never above its weight.
C9_Witness ==
    /\ pc = "done"
    /\ \A k \in 1..i : Th[k] <= W[k]
    /\ \E k \in 1..i : Th[k] > 0
    /\ m[Len(m)] < m[1]
    /\ t_MECO # {}

\* The linear interpolation of the two samples that bracket tq, rounded once.
Bracketed(tq, c, r) ==
    \E j \in 1..(Len(c) - 1) :
        /\ c[j][1] <= tq /\ tq < c[j + 1][1]
        /\ r = c[j][2] + RDiv((c[j + 1][2] - c[j][2]) * (tq - c[j][1]),
                              c[j + 1][1] - c[j][1])

C11_ForcesMatchState ==
    pc = "done" =>
        \A k \in 1..Len(t) :
            /\ W[k] = Mul(m[k], cfg.g)
            /\ (m[k] <= cfg.m_dry + Eps) => Th[k] = 0

\* C12: touchdown is recorded only in a step that started with apogee
\* already recorded, so a result with a touchdown time has an apogee time
\* and t_apogee <= t_touchdown; and no forward-Euler step (one that does
\* not take the ground guard) detects both apogee and touchdown.
C12_ApogeeBeforeTouchdown ==
    pc # "idle" =>
        /\ (Stepped /\ "touchdown" \in step.fired) => step.apo0
        /\ t_td # {} =>
              /\ t_apo # {}
              /\ \A u \in t_apo : \A w \in t_td : u <= w
        /\ (Stepped /\ ~step.guard) => ~({"apogee", "touchdown"} \subseteq step.fired)
====
